---- MODULE Spec2Model ----
(***************************************************************************)
(* Model of the minesweeper-web server (src/src/main.rs): the session      *)
(* registry GameStorage = Arc<Mutex<HashMap<String, GameInfo>>> and its     *)
(* four handlers new_game, get_game_state, click_tile and toggle_flag.      *)
(* The board engine (crate `minesweeper`) is not part of src/; its          *)
(* operations are modelled from the specification's section 4.1, through    *)
(* the interface main.rs calls.                                             *)
(***************************************************************************)
EXTENDS Integers, Sequences, FiniteSets, TLC

(* ------------------------------ bounds -------------------------------- *)

\* Number of distinct session identifiers generate_game_id can return.
NumIds == 2
\* Largest board side a create request asks for.
MaxSize == 2
\* Largest mine count a create request asks for.
MaxMineCount == 2
\* Number of requests served in one behaviour.
MaxRequests == 4
\* Number of requests that can be in flight at once, and the number of
\* requests started in one behaviour with concurrent handlers.
NumThreads == 2
MaxConcRequests == 3
\* Largest board side, largest mine count and number of requests served in
\* the behaviours of one active session (SpecBoard).
MaxBoardSize == 3
MaxBoardMines == 2
MaxBoardRequests == 2

Ids == 1..NumIds
Sizes == 0..MaxSize
MineCounts == 0..MaxMineCount
\* Path coordinates (usize): every in-bounds one and one past the largest side.
Coords == 0..MaxSize

(* ------------------------- Option<T> as a tuple ------------------------ *)

None == <<>>
Some(v) == <<v>>
IsSome(o) == o # <<>>
Unwrap(o) == o[1]

(* ---------------- board engine (crate minesweeper), spec 4.1 ----------- *)

Cells(n) == (0..(n - 1)) \X (0..(n - 1))

InBounds(n, x, y) == x < n /\ y < n

Abs(i) == IF i < 0 THEN -i ELSE i

\* The up-to-8 neighbouring cells of c on a board of side n.
Neighbors(n, c) ==
    {d \in Cells(n) : d # c /\ Abs(d[1] - c[1]) <= 1 /\ Abs(d[2] - c[2]) <= 1}

AdjacentCount(n, mines, c) == Cardinality(Neighbors(n, c) \cap mines)

\* TileValue::Bomb | TileValue::Number(n)
Bomb == [bomb |-> TRUE, n |-> 0]
Number(k) == [bomb |-> FALSE, n |-> k]

\* NewWithMines(size, minePositions): nothing exposed, nothing flagged.
NewWithMines(n, minePositions) ==
    [size |-> n, mines |-> minePositions, exposed |-> {}, flagged |-> {},
     state |-> "InProgress"]

\* TileAt(x, y) -> Tile option
get_tile(b, x, y) ==
    IF InBounds(b.size, x, y)
    THEN Some([exposed |-> <<x, y>> \in b.exposed,
               flagged |-> <<x, y>> \in b.flagged,
               value |-> IF <<x, y>> \in b.mines THEN Bomb
                         ELSE Number(AdjacentCount(b.size, b.mines, <<x, y>>))])
    ELSE None

get_size(b) == b.size

get_game_state(b) == b.state

\* Flood fill with an explicit work-list: a tile taken from the list is
\* skipped when already exposed or flagged, else exposed; the unexposed,
\* unflagged neighbours of a zero-count tile join the list.
RECURSIVE FloodFill(_, _, _)
FloodFill(b, work, exposed) ==
    IF work = {} THEN exposed
    ELSE LET c == CHOOSE t \in work : TRUE
             rest == work \ {c}
         IN IF c \in exposed \/ c \in b.flagged \/ c \in b.mines
            THEN FloodFill(b, rest, exposed)
            ELSE IF AdjacentCount(b.size, b.mines, c) = 0
                 THEN FloodFill(b,
                        rest \cup {d \in Neighbors(b.size, c) :
                                     d \notin exposed /\ d \notin b.flagged},
                        exposed \cup {c})
                 ELSE FloodFill(b, rest, exposed \cup {c})

\* Win condition: every non-mine tile is exposed.
AllSafeExposed(b, exposed) == (Cells(b.size) \ b.mines) \subseteq exposed

\* Reveal(x, y): the set of possible <<board', result>>; result is "Ok" or
\* the failure kind. On a finished game the specification allows a no-op
\* or a GameOver rejection; both are outcomes.
EngineReveal(b, x, y) ==
    LET c == <<x, y>> IN
    IF ~InBounds(b.size, x, y) THEN {<<b, "OutOfBounds">>}
    ELSE IF b.state # "InProgress" THEN {<<b, "Ok">>, <<b, "GameOver">>}
    ELSE IF c \in b.exposed THEN {<<b, "Ok">>}
    ELSE IF c \in b.flagged THEN {<<b, "TileFlagged">>}
    ELSE IF c \in b.mines
         THEN {<<[b EXCEPT !.exposed = b.exposed \cup b.mines,
                           !.flagged = b.flagged \ b.mines,
                           !.state = "Lost"], "Ok">>}
    ELSE LET e == FloodFill(b, {c}, b.exposed)
         IN {<<[b EXCEPT !.exposed = e,
                         !.state = IF AllSafeExposed(b, e) THEN "Won"
                                   ELSE "InProgress"], "Ok">>}

\* ToggleFlag(x, y): on a finished game the specification allows a no-op or
\* a GameOver failure; both are outcomes.
EngineToggleFlag(b, x, y) ==
    LET c == <<x, y>> IN
    IF ~InBounds(b.size, x, y) THEN {<<b, "OutOfBounds">>}
    ELSE IF b.state # "InProgress" THEN {<<b, "Ok">>, <<b, "GameOver">>}
    ELSE IF c \in b.exposed THEN {<<b, "TileExposed">>}
    ELSE IF c \in b.flagged
         THEN {<<[b EXCEPT !.flagged = b.flagged \ {c}], "Ok">>}
    ELSE {<<[b EXCEPT !.flagged = b.flagged \cup {c}], "Ok">>}

\* NewWithFirstClick(size, mineCount, firstClick): the boards the random
\* placement can produce, the first click already revealed; the empty set
\* when construction fails with InvalidConfig.
new_with_first_click(n, mineCount, first) ==
    IF mineCount > n * n - 1 THEN {}
    ELSE {r[1] : r \in UNION {EngineReveal(NewWithMines(n, m), first[1], first[2]) :
                   m \in {s \in SUBSET (Cells(n) \ {first}) :
                            Cardinality(s) = mineCount}}}

(* ------------------------- registry (main.rs) ------------------------- *)

VARIABLES games, poisoned, req, resp, served, threads, lock, lin

vars == <<games, poisoned, req, resp, served, threads, lock, lin>>

Tids == 1..NumThreads

\* struct GameInfo
GameInfo(game, size, mine_count, first_click_made) ==
    [game |-> game, size |-> size, mine_count |-> mine_count,
     first_click_made |-> first_click_made]

\* HashMap::insert: adds the key or replaces its value.
Insert(m, k, v) == [j \in DOMAIN m \cup {k} |-> IF j = k THEN v ELSE m[j]]

\* usize::to_string for an adjacent count 0..8.
DecimalDigits == <<"0", "1", "2", "3", "4", "5", "6", "7", "8">>
to_string(k) == DecimalDigits[k + 1]

\* format!("{:?}", game.get_game_state())
DebugFormat(state) ==
    CASE state = "InProgress" -> "InProgress"
      [] state = "Won" -> "Won"
      [] state = "Lost" -> "Lost"

TileResponse(exposed, flagged, value) ==
    [exposed |-> exposed, flagged |-> flagged, value |-> value]

\* Variant of TileResponseValue that forgets the `if tile.exposed` test.
TileResponseValueUnconditional(tile) ==
    IF tile.value.bomb THEN Some("bomb") ELSE Some(to_string(tile.value.n))

\* The value field of one serialized tile (lines 344-351).
TileResponseValue(tile) ==
    IF tile.exposed
    THEN IF tile.value.bomb THEN Some("bomb") ELSE Some(to_string(tile.value.n))
    ELSE None

serialize_board(game) ==
    [x \in 0..(get_size(game) - 1) |->
       [y \in 0..(get_size(game) - 1) |->
          LET tile == Unwrap(get_tile(game, x, y))
          IN TileResponse(tile.exposed, tile.flagged, TileResponseValue(tile))]]

create_empty_board_response(size) ==
    [x \in 0..(size - 1) |->
       [y \in 0..(size - 1) |-> TileResponse(FALSE, FALSE, None)]]

\* The identifiers rand can produce.
generate_game_id == Ids

GameResponse(game_id, size, mine_count, game_state, board) ==
    [kind |-> "GameResponse", game_id |-> game_id, size |-> size,
     mine_count |-> mine_count, game_state |-> game_state, board |-> board]

ActionResponse(success, message, game_state, board) ==
    [kind |-> "ActionResponse", success |-> success, message |-> message,
     game_state |-> game_state, board |-> board]

\* Err(StatusCode)
ErrStatus(code) == [kind |-> "Err", status |-> code]

\* games.lock().unwrap() on a poisoned mutex, or a panic inside the handler:
\* the request gets no response.
Panicked == [kind |-> "Panic"]

\* result.err().unwrap_or_else(|| "Success".to_string())
Message(result) == IF result = "Ok" THEN "Success" ELSE result

Outcome(g, p, r) == [games |-> g, poisoned |-> p, resp |-> r]

\* new_game with the identifier it generated.
new_game(g, p, game_id, size, mine_count) ==
    LET game_info == GameInfo(None, size, mine_count, FALSE)
        response == GameResponse(game_id, size, mine_count, "InProgress",
                                 create_empty_board_response(size))
    IN IF p THEN {Outcome(g, p, Panicked)}
       ELSE {Outcome(Insert(g, game_id, game_info), p, response)}

get_game_state_handler(g, p, game_id) ==
    IF p THEN {Outcome(g, p, Panicked)}
    ELSE IF game_id \notin DOMAIN g THEN {Outcome(g, p, ErrStatus("NOT_FOUND"))}
    ELSE LET game_info == g[game_id]
             game_state == IF IsSome(game_info.game)
                           THEN DebugFormat(get_game_state(Unwrap(game_info.game)))
                           ELSE "InProgress"
             board == IF IsSome(game_info.game)
                      THEN serialize_board(Unwrap(game_info.game))
                      ELSE create_empty_board_response(game_info.size)
         IN {Outcome(g, p, GameResponse(game_id, game_info.size,
                                        game_info.mine_count, game_state, board))}

\* The message of the first click's response (line 284).
FirstClickMessage == "First click processed! Game board generated."

\* Variant of FirstClickAt that reports "InProgress" without asking the board,
\* as new_game and the pending branch of toggle_flag do.
FirstClickAtReportsInProgress(g, p, game_id, first) ==
    LET game_info == g[game_id]
        boards == new_with_first_click(game_info.size, game_info.mine_count, first)
    IN IF boards = {} THEN {Outcome(g, TRUE, Panicked)}
       ELSE {Outcome([g EXCEPT ![game_id] =
                        GameInfo(Some(game), game_info.size, game_info.mine_count, TRUE)],
                     p,
                     ActionResponse(TRUE, FirstClickMessage, "InProgress",
                        serialize_board(game))) : game \in boards}

\* Variant of FirstClickAt that stores the new board in a registry emptied of
\* every other session.
FirstClickAtDroppingOthers(g, p, game_id, first) ==
    LET game_info == g[game_id]
        boards == new_with_first_click(game_info.size, game_info.mine_count, first)
    IN IF boards = {} THEN {Outcome(g, TRUE, Panicked)}
       ELSE {Outcome(Insert(<<>>, game_id,
                        GameInfo(Some(game), game_info.size, game_info.mine_count, TRUE)),
                     p,
                     ActionResponse(TRUE, FirstClickMessage,
                        DebugFormat(get_game_state(game)),
                        serialize_board(game))) : game \in boards}

\* Variant of FirstClickAt that leaves first_click_made false.
FirstClickAtUnmarked(g, p, game_id, first) ==
    LET game_info == g[game_id]
        boards == new_with_first_click(game_info.size, game_info.mine_count, first)
    IN IF boards = {} THEN {Outcome(g, TRUE, Panicked)}
       ELSE {Outcome([g EXCEPT ![game_id] =
                        GameInfo(Some(game), game_info.size, game_info.mine_count, FALSE)],
                     p,
                     ActionResponse(TRUE, FirstClickMessage,
                        DebugFormat(get_game_state(game)),
                        serialize_board(game))) : game \in boards}

\* new_with_first_click, then the handler's success response.
FirstClickAt(g, p, game_id, first) ==
    LET game_info == g[game_id]
        boards == new_with_first_click(game_info.size, game_info.mine_count, first)
    IN IF boards = {} THEN {Outcome(g, TRUE, Panicked)}
       ELSE {Outcome([g EXCEPT ![game_id] =
                        GameInfo(Some(game), game_info.size, game_info.mine_count, TRUE)],
                     p,
                     ActionResponse(TRUE, FirstClickMessage,
                        DebugFormat(get_game_state(game)),
                        serialize_board(game))) : game \in boards}

\* Variant of FirstClick that passes (y, x) as the first click.
FirstClickTransposed(g, p, game_id, x, y) == FirstClickAt(g, p, game_id, <<y, x>>)

\* The first-click branch of click_tile (lines 272-290).
FirstClick(g, p, game_id, x, y) == FirstClickAt(g, p, game_id, <<x, y>>)

\* Variant of click_tile that takes the first-click branch on every click.
click_tile_regenerating(g, p, game_id, x, y) ==
    IF p THEN {Outcome(g, p, Panicked)}
    ELSE IF game_id \notin DOMAIN g THEN {Outcome(g, p, ErrStatus("NOT_FOUND"))}
    ELSE FirstClick(g, p, game_id, x, y)

\* Variant of click_tile whose response reports success: true whatever
\* game.click_tile returned, as the first-click branch does.
click_tile_always_success(g, p, game_id, x, y) ==
    IF p THEN {Outcome(g, p, Panicked)}
    ELSE IF game_id \notin DOMAIN g THEN {Outcome(g, p, ErrStatus("NOT_FOUND"))}
    ELSE IF ~g[game_id].first_click_made THEN FirstClick(g, p, game_id, x, y)
    ELSE IF ~IsSome(g[game_id].game)
         THEN {Outcome(g, p, ErrStatus("INTERNAL_SERVER_ERROR"))}
    ELSE {Outcome([g EXCEPT ![game_id].game = Some(r[1])], p,
                  ActionResponse(TRUE, Message(r[2]),
                                 DebugFormat(get_game_state(r[1])),
                                 serialize_board(r[1]))) :
            r \in EngineReveal(Unwrap(g[game_id].game), x, y)}

\* Variant of click_tile that passes (y, x) to game.click_tile.
click_tile_transposed(g, p, game_id, x, y) ==
    IF p THEN {Outcome(g, p, Panicked)}
    ELSE IF game_id \notin DOMAIN g THEN {Outcome(g, p, ErrStatus("NOT_FOUND"))}
    ELSE IF ~g[game_id].first_click_made THEN FirstClick(g, p, game_id, x, y)
    ELSE IF ~IsSome(g[game_id].game)
         THEN {Outcome(g, p, ErrStatus("INTERNAL_SERVER_ERROR"))}
    ELSE {Outcome([g EXCEPT ![game_id].game = Some(r[1])], p,
                  ActionResponse(r[2] = "Ok", Message(r[2]),
                                 DebugFormat(get_game_state(r[1])),
                                 serialize_board(r[1]))) :
            r \in EngineReveal(Unwrap(g[game_id].game), y, x)}

\* Variant of click_tile that builds the response from the board as it was
\* before game.click_tile ran.
click_tile_stale_response(g, p, game_id, x, y) ==
    IF p THEN {Outcome(g, p, Panicked)}
    ELSE IF game_id \notin DOMAIN g THEN {Outcome(g, p, ErrStatus("NOT_FOUND"))}
    ELSE IF ~g[game_id].first_click_made THEN FirstClick(g, p, game_id, x, y)
    ELSE IF ~IsSome(g[game_id].game)
         THEN {Outcome(g, p, ErrStatus("INTERNAL_SERVER_ERROR"))}
    ELSE {Outcome([g EXCEPT ![game_id].game = Some(r[1])], p,
                  ActionResponse(r[2] = "Ok", Message(r[2]),
                                 DebugFormat(get_game_state(Unwrap(g[game_id].game))),
                                 serialize_board(Unwrap(g[game_id].game)))) :
            r \in EngineReveal(Unwrap(g[game_id].game), x, y)}

click_tile(g, p, game_id, x, y) ==
    IF p THEN {Outcome(g, p, Panicked)}
    ELSE IF game_id \notin DOMAIN g THEN {Outcome(g, p, ErrStatus("NOT_FOUND"))}
    ELSE IF ~g[game_id].first_click_made THEN FirstClick(g, p, game_id, x, y)
    ELSE IF ~IsSome(g[game_id].game)
         THEN {Outcome(g, p, ErrStatus("INTERNAL_SERVER_ERROR"))}
    ELSE {Outcome([g EXCEPT ![game_id].game = Some(r[1])], p,
                  ActionResponse(r[2] = "Ok", Message(r[2]),
                                 DebugFormat(get_game_state(r[1])),
                                 serialize_board(r[1]))) :
            r \in EngineReveal(Unwrap(g[game_id].game), x, y)}

\* Variant of toggle_flag whose response reports success: true whatever
\* game.toggle_flag returned.
toggle_flag_always_success(g, p, game_id, x, y) ==
    IF p THEN {Outcome(g, p, Panicked)}
    ELSE IF game_id \notin DOMAIN g THEN {Outcome(g, p, ErrStatus("NOT_FOUND"))}
    ELSE IF ~g[game_id].first_click_made
         THEN {Outcome(g, p,
                  ActionResponse(FALSE, "Make your first click before flagging!",
                                 "InProgress",
                                 create_empty_board_response(g[game_id].size)))}
    ELSE IF ~IsSome(g[game_id].game)
         THEN {Outcome(g, p, ErrStatus("INTERNAL_SERVER_ERROR"))}
    ELSE {Outcome([g EXCEPT ![game_id].game = Some(r[1])], p,
                  ActionResponse(TRUE, Message(r[2]),
                                 DebugFormat(get_game_state(r[1])),
                                 serialize_board(r[1]))) :
            r \in EngineToggleFlag(Unwrap(g[game_id].game), x, y)}

\* Variant of toggle_flag that passes (y, x) to game.toggle_flag.
toggle_flag_transposed(g, p, game_id, x, y) ==
    IF p THEN {Outcome(g, p, Panicked)}
    ELSE IF game_id \notin DOMAIN g THEN {Outcome(g, p, ErrStatus("NOT_FOUND"))}
    ELSE IF ~g[game_id].first_click_made
         THEN {Outcome(g, p,
                  ActionResponse(FALSE, "Make your first click before flagging!",
                                 "InProgress",
                                 create_empty_board_response(g[game_id].size)))}
    ELSE IF ~IsSome(g[game_id].game)
         THEN {Outcome(g, p, ErrStatus("INTERNAL_SERVER_ERROR"))}
    ELSE {Outcome([g EXCEPT ![game_id].game = Some(r[1])], p,
                  ActionResponse(r[2] = "Ok", Message(r[2]),
                                 DebugFormat(get_game_state(r[1])),
                                 serialize_board(r[1]))) :
            r \in EngineToggleFlag(Unwrap(g[game_id].game), y, x)}

toggle_flag(g, p, game_id, x, y) ==
    IF p THEN {Outcome(g, p, Panicked)}
    ELSE IF game_id \notin DOMAIN g THEN {Outcome(g, p, ErrStatus("NOT_FOUND"))}
    ELSE IF ~g[game_id].first_click_made
         THEN {Outcome(g, p,
                  ActionResponse(FALSE, "Make your first click before flagging!",
                                 "InProgress",
                                 create_empty_board_response(g[game_id].size)))}
    ELSE IF ~IsSome(g[game_id].game)
         THEN {Outcome(g, p, ErrStatus("INTERNAL_SERVER_ERROR"))}
    ELSE {Outcome([g EXCEPT ![game_id].game = Some(r[1])], p,
                  ActionResponse(r[2] = "Ok", Message(r[2]),
                                 DebugFormat(get_game_state(r[1])),
                                 serialize_board(r[1]))) :
            r \in EngineToggleFlag(Unwrap(g[game_id].game), x, y)}

Request(op, game_id, x, y, size, mine_count) ==
    [op |-> op, game_id |-> game_id, x |-> x, y |-> y, size |-> size,
     mine_count |-> mine_count]

NoRequest == Request("none", 0, 0, 0, 0, 0)

\* A request handler task: where it is in its handler, its request, and the
\* engine result it holds.
Thread(pc, r, result) == [pc |-> pc, req |-> r, result |-> result]

IdleThread == Thread("idle", NoRequest, "Ok")

\* main: an empty registry, nothing served yet, no request in flight.
Init ==
    /\ games = <<>>
    /\ poisoned = FALSE
    /\ req = NoRequest
    /\ resp = [kind |-> "None"]
    /\ served = 0
    /\ threads = [t \in Tids |-> IdleThread]
    /\ lock = 0
    /\ lin = Outcome(<<>>, FALSE, [kind |-> "None"])

\* One whole handler, run under the registry mutex.
Apply(o, r) ==
    /\ games' = o.games
    /\ poisoned' = o.poisoned
    /\ resp' = o.resp
    /\ req' = r
    /\ served' = served + 1
    /\ UNCHANGED <<threads, lock, lin>>

\* POST /api/new-game
NewGame ==
    /\ served < MaxRequests
    /\ \E game_id \in generate_game_id, size \in Sizes, mine_count \in MineCounts :
         \E o \in new_game(games, poisoned, game_id, size, mine_count) :
            Apply(o, Request("new_game", game_id, 0, 0, size, mine_count))

\* GET /api/game/{game_id}
GetGameState ==
    /\ served < MaxRequests
    /\ \E game_id \in Ids :
         \E o \in get_game_state_handler(games, poisoned, game_id) :
            Apply(o, Request("get_game_state", game_id, 0, 0, 0, 0))

\* POST /api/game/{game_id}/click/{x}/{y}
ClickTile ==
    /\ served < MaxRequests
    /\ \E game_id \in Ids, x \in Coords, y \in Coords :
         \E o \in click_tile(games, poisoned, game_id, x, y) :
            Apply(o, Request("click_tile", game_id, x, y, 0, 0))

\* POST /api/game/{game_id}/flag/{x}/{y}
ToggleFlag ==
    /\ served < MaxRequests
    /\ \E game_id \in Ids, x \in Coords, y \in Coords :
         \E o \in toggle_flag(games, poisoned, game_id, x, y) :
            Apply(o, Request("toggle_flag", game_id, x, y, 0, 0))

Next == NewGame \/ GetGameState \/ ClickTile \/ ToggleFlag

Spec == Init /\ [][Next]_vars

(* ------------- concurrent handlers: one step per statement ------------- *)

\* Variant of MutexAvailable for a lock that excludes nobody.
MutexNeverBlocks(l) == TRUE

\* Mutex::lock blocks while another task holds the guard.
MutexAvailable(l) == l = 0

\* The handler a request runs, as one step of the registry.
Handle(g, p, r) ==
    CASE r.op = "new_game" -> new_game(g, p, r.game_id, r.size, r.mine_count)
      [] r.op = "get_game_state" -> get_game_state_handler(g, p, r.game_id)
      [] r.op = "click_tile" -> click_tile(g, p, r.game_id, r.x, r.y)
      [] r.op = "toggle_flag" -> toggle_flag(g, p, r.game_id, r.x, r.y)

Requests ==
    {Request("new_game", i, 0, 0, n, m) : i \in generate_game_id, n \in Sizes,
                                          m \in MineCounts}
    \cup {Request("get_game_state", i, 0, 0, 0, 0) : i \in Ids}
    \cup {Request(op, i, x, y, 0, 0) :
            op \in {"click_tile", "toggle_flag"}, i \in Ids, x \in Coords, y \in Coords}

Goto(t, pc) == threads' = [threads EXCEPT ![t].pc = pc]

\* The handler of task t returns (or unwinds): the guard is dropped and the
\* response goes out.
Return(t, g, p, response) ==
    /\ games' = g
    /\ poisoned' = p
    /\ resp' = response
    /\ req' = threads[t].req
    /\ threads' = [threads EXCEPT ![t] = IdleThread]
    /\ lock' = 0
    /\ lin' = Outcome(g, p, response)
    /\ UNCHANGED served

\* A request arrives; new_game generates its id and builds its response
\* before it takes the lock (lines 218-234).
Start ==
    \E t \in Tids, r \in Requests :
       /\ threads[t].pc = "idle"
       /\ served < MaxConcRequests
       /\ threads' = [threads EXCEPT ![t] = Thread("lock", r, "Ok")]
       /\ served' = served + 1
       /\ UNCHANGED <<games, poisoned, req, resp, lock, lin>>

\* games.lock().unwrap() (lines 236, 244, 268, 310)
Acquire ==
    \E t \in Tids :
       /\ threads[t].pc = "lock"
       /\ MutexAvailable(lock)
       /\ IF poisoned
          THEN Return(t, games, poisoned, Panicked)
          ELSE /\ lock' = t
               /\ Goto(t, "locked")
               /\ UNCHANGED <<games, poisoned, req, resp, served, lin>>

\* new_game: insert (line 236) and return.
InsertGame ==
    \E t \in Tids :
       LET r == threads[t].req IN
       /\ threads[t].pc = "locked"
       /\ r.op = "new_game"
       /\ Return(t, Insert(games, r.game_id, GameInfo(None, r.size, r.mine_count, FALSE)),
                 poisoned,
                 GameResponse(r.game_id, r.size, r.mine_count, "InProgress",
                              create_empty_board_response(r.size)))

\* get_game_state: lines 245-261.
ReadState ==
    \E t \in Tids :
       /\ threads[t].pc = "locked"
       /\ threads[t].req.op = "get_game_state"
       /\ \E o \in get_game_state_handler(games, FALSE, threads[t].req.game_id) :
             Return(t, games, poisoned, o.resp)

\* click_tile: get_mut and the first-click test (lines 269-272).
ClickLookup ==
    \E t \in Tids :
       LET r == threads[t].req IN
       /\ threads[t].pc = "locked"
       /\ r.op = "click_tile"
       /\ IF r.game_id \notin DOMAIN games
          THEN Return(t, games, poisoned, ErrStatus("NOT_FOUND"))
          ELSE /\ Goto(t, IF ~games[r.game_id].first_click_made
                          THEN "construct" ELSE "click")
               /\ UNCHANGED <<games, poisoned, req, resp, served, lock, lin>>

\* click_tile: game_info.game = Some(new_with_first_click(..)) (lines 273-277).
Construct ==
    \E t \in Tids :
       LET r == threads[t].req
           game_info == games[r.game_id]
           boards == new_with_first_click(game_info.size, game_info.mine_count,
                                          <<r.x, r.y>>)
       IN /\ threads[t].pc = "construct"
          /\ IF boards = {}
             THEN Return(t, games, TRUE, Panicked)
             ELSE /\ \E game \in boards :
                        games' = [games EXCEPT ![r.game_id].game = Some(game)]
                  /\ Goto(t, "mark")
                  /\ UNCHANGED <<poisoned, req, resp, served, lock, lin>>

\* click_tile: game_info.first_click_made = true (line 278).
Mark ==
    \E t \in Tids :
       /\ threads[t].pc = "mark"
       /\ games' = [games EXCEPT ![threads[t].req.game_id].first_click_made = TRUE]
       /\ Goto(t, "respond_first")
       /\ UNCHANGED <<poisoned, req, resp, served, lock, lin>>

\* click_tile: the first click's response (lines 281-289).
RespondFirst ==
    \E t \in Tids :
       LET game_info == games[threads[t].req.game_id] IN
       /\ threads[t].pc = "respond_first"
       /\ IF ~IsSome(game_info.game)
          THEN Return(t, games, TRUE, Panicked)
          ELSE Return(t, games, poisoned,
                      ActionResponse(TRUE, FirstClickMessage,
                         DebugFormat(get_game_state(Unwrap(game_info.game))),
                         serialize_board(Unwrap(game_info.game))))

\* click_tile: as_mut and game.click_tile(x, y) (lines 293-294).
Click ==
    \E t \in Tids :
       LET r == threads[t].req
           game_info == games[r.game_id]
       IN /\ threads[t].pc = "click"
          /\ IF ~IsSome(game_info.game)
             THEN Return(t, games, poisoned, ErrStatus("INTERNAL_SERVER_ERROR"))
             ELSE \E e \in EngineReveal(Unwrap(game_info.game), r.x, r.y) :
                     /\ games' = [games EXCEPT ![r.game_id].game = Some(e[1])]
                     /\ threads' = [threads EXCEPT ![t].pc = "respond",
                                                   ![t].result = e[2]]
                     /\ UNCHANGED <<poisoned, req, resp, served, lock, lin>>

\* toggle_flag: get_mut and the first-click test (lines 311-322).
FlagLookup ==
    \E t \in Tids :
       LET r == threads[t].req IN
       /\ threads[t].pc = "locked"
       /\ r.op = "toggle_flag"
       /\ IF r.game_id \notin DOMAIN games
          THEN Return(t, games, poisoned, ErrStatus("NOT_FOUND"))
          ELSE IF ~games[r.game_id].first_click_made
          THEN Return(t, games, poisoned,
                      ActionResponse(FALSE, "Make your first click before flagging!",
                                     "InProgress",
                                     create_empty_board_response(games[r.game_id].size)))
          ELSE /\ Goto(t, "toggle")
               /\ UNCHANGED <<games, poisoned, req, resp, served, lock, lin>>

\* toggle_flag: as_mut and game.toggle_flag(x, y) (lines 324-325).
Toggle ==
    \E t \in Tids :
       LET r == threads[t].req
           game_info == games[r.game_id]
       IN /\ threads[t].pc = "toggle"
          /\ IF ~IsSome(game_info.game)
             THEN Return(t, games, poisoned, ErrStatus("INTERNAL_SERVER_ERROR"))
             ELSE \E e \in EngineToggleFlag(Unwrap(game_info.game), r.x, r.y) :
                     /\ games' = [games EXCEPT ![r.game_id].game = Some(e[1])]
                     /\ threads' = [threads EXCEPT ![t].pc = "respond",
                                                   ![t].result = e[2]]
                     /\ UNCHANGED <<poisoned, req, resp, served, lock, lin>>

\* click_tile and toggle_flag: the response (lines 296-303, 327-334).
Respond ==
    \E t \in Tids :
       LET game == Unwrap(games[threads[t].req.game_id].game)
           result == threads[t].result
       IN /\ threads[t].pc = "respond"
          /\ Return(t, games, poisoned,
                    ActionResponse(result = "Ok", Message(result),
                                   DebugFormat(get_game_state(game)),
                                   serialize_board(game)))

NextConc ==
    \/ Start \/ Acquire \/ InsertGame \/ ReadState \/ ClickLookup \/ Construct
    \/ Mark \/ RespondFirst \/ Click \/ FlagLookup \/ Toggle \/ Respond

SpecConc == Init /\ [][NextConc]_vars

(* ------------- one active session: reveals and flags on a board -------- *)

\* Path coordinates for a board of side up to MaxBoardSize, one past the
\* largest side included.
BoardCoords == 0..MaxBoardSize

\* The session a create request and a first reveal leave behind: id 1, any
\* valid size and mine count, any first click (in bounds or not), any layout
\* the placement can draw.
InitBoard ==
    /\ \E n \in 1..MaxBoardSize, k \in 0..MaxBoardMines,
          x \in BoardCoords, y \in BoardCoords :
          /\ k <= n * n - 1
          /\ x <= n
          /\ y <= n
          /\ \E o \in click_tile(Insert(<<>>, 1, GameInfo(None, n, k, FALSE)),
                                 FALSE, 1, x, y) :
                /\ games = o.games
                /\ resp = o.resp
                /\ req = Request("click_tile", 1, x, y, 0, 0)
    /\ poisoned = FALSE
    /\ served = 0
    /\ threads = [t \in Tids |-> IdleThread]
    /\ lock = 0
    /\ lin = Outcome(<<>>, FALSE, [kind |-> "None"])

\* POST /api/game/{game_id}/click/{x}/{y} on the session
BoardClick ==
    /\ served < MaxBoardRequests
    /\ \E game_id \in DOMAIN games, x \in BoardCoords, y \in BoardCoords :
         /\ x <= games[game_id].size
         /\ y <= games[game_id].size
         /\ \E o \in click_tile(games, poisoned, game_id, x, y) :
               Apply(o, Request("click_tile", game_id, x, y, 0, 0))

\* POST /api/game/{game_id}/flag/{x}/{y} on the session
BoardFlag ==
    /\ served < MaxBoardRequests
    /\ \E game_id \in DOMAIN games, x \in BoardCoords, y \in BoardCoords :
         /\ x <= games[game_id].size
         /\ y <= games[game_id].size
         /\ \E o \in toggle_flag(games, poisoned, game_id, x, y) :
               Apply(o, Request("toggle_flag", game_id, x, y, 0, 0))

NextBoard == BoardClick \/ BoardFlag

SpecBoard == InitBoard /\ [][NextBoard]_vars

(* ------------------------------- claims -------------------------------- *)

RespHasBoard == resp.kind \in {"GameResponse", "ActionResponse"}

\* The session the last request addressed holds a board.
Active(g, game_id) == game_id \in DOMAIN g /\ IsSome(g[game_id].game)

Board(g, game_id) == Unwrap(g[game_id].game)

\* A request was served in this step.
Served == served' = served + 1

\* Mine layout m2 agrees with board b on everything an exposed tile shows.
SameUnderExposed(b, m2) ==
    \A c \in b.exposed :
       /\ (c \in m2) = (c \in b.mines)
       /\ AdjacentCount(b.size, m2, c) = AdjacentCount(b.size, b.mines, c)

\* C1: in every snapshot returned by any operation, a tile with exposed=false
\* carries no value, and an exposed tile carries "bomb" for a mine and the
\* adjacent mine count otherwise; and the snapshot of a board is the same for
\* every mine layout that differs from it only under unexposed tiles.
C1_InformationHiding ==
    /\ RespHasBoard =>
         \A x \in DOMAIN resp.board : \A y \in DOMAIN resp.board[x] :
            LET t == resp.board[x][y] IN
            /\ ~t.exposed => t.value = None
            /\ t.exposed =>
                 /\ Active(games, req.game_id)
                 /\ LET b == Board(games, req.game_id) IN
                    t.value = IF <<x, y>> \in b.mines THEN <<"bomb">>
                              ELSE <<DecimalDigits[AdjacentCount(b.size, b.mines, <<x, y>>) + 1]>>
    /\ \A id \in DOMAIN games :
          IsSome(games[id].game) =>
             LET b == Board(games, id) IN
             \A m2 \in SUBSET Cells(b.size) :
                SameUnderExposed(b, m2) =>
                   serialize_board([b EXCEPT !.mines = m2]) = serialize_board(b)

\* A returned snapshot with an exposed tile and an unexposed mine, for which
\* another mine layout shows the same exposed tiles.
C1_Witness ==
    /\ RespHasBoard
    /\ Active(games, req.game_id)
    /\ LET b == Board(games, req.game_id) IN
       /\ b.exposed # {}
       /\ b.mines \ b.exposed # {}
       /\ resp.board = serialize_board(b)
       /\ \E m2 \in SUBSET Cells(b.size) : m2 # b.mines /\ SameUnderExposed(b, m2)

\* C2: concurrent handlers on the registry are serialized: whenever a handler
\* returns, the registry and its response are an outcome of running that
\* handler as one step on the registry left by the handler that returned
\* before it; no handler starts reading while a session is half activated
\* (board built, first_click_made still false); and a board, once built, is
\* not built again by a concurrent first reveal.
C2_Serialized ==
    /\ [][\A t \in Tids :
            (threads[t].pc # "idle" /\ threads'[t].pc = "idle") =>
               Outcome(games', poisoned', resp')
                  \in Handle(lin.games, lin.poisoned, threads[t].req)]_vars
    /\ []((\E t \in Tids : threads[t].pc = "locked") =>
            \A id \in DOMAIN games :
               games[id].first_click_made = IsSome(games[id].game))
    /\ [][\A id \in DOMAIN games :
            (IsSome(games[id].game) /\ IsSome(games'[id].game)) =>
               Board(games', id).mines = Board(games, id).mines]_vars

\* Two first reveals of one pending session in flight: one has built the
\* board and not yet marked the session, the other waits for the lock.
C2_Witness ==
    \E t1 \in Tids, t2 \in Tids :
       /\ t1 # t2
       /\ threads[t1].pc = "mark"
       /\ threads[t2].pc = "lock"
       /\ threads[t1].req.op = "click_tile"
       /\ threads[t2].req.op = "click_tile"
       /\ threads[t1].req.game_id = threads[t2].req.game_id
       /\ threads[t1].req.x < games[threads[t1].req.game_id].size

\* C3: once a session's game state is Won or Lost, every further reveal or
\* flag on it, at any coordinates, leaves the session (game state, exposed
\* and flagged tiles, mines) unchanged.
C3_TerminalAbsorbing ==
    [][\A id \in DOMAIN games :
         (/\ IsSome(games[id].game)
          /\ Board(games, id).state \in {"Won", "Lost"}
          /\ Served
          /\ req'.op \in {"click_tile", "toggle_flag"}
          /\ req'.game_id = id)
         => (id \in DOMAIN games' /\ games'[id] = games[id])]_vars

\* A reveal was rejected with GameOver on a lost board.
C3_Witness ==
    /\ req.op = "click_tile"
    /\ resp.kind = "ActionResponse"
    /\ resp.message = "GameOver"
    /\ resp.game_state = "Lost"
    /\ Active(games, req.game_id)
    /\ Board(games, req.game_id).state = "Lost"

\* C4: the board generated by an in-bounds first reveal has no mine at the
\* clicked coordinate, and the game state that reveal reports is not Lost.
C4_SafeFirstClick ==
    (/\ req.op = "click_tile"
     /\ resp.kind = "ActionResponse"
     /\ resp.message = FirstClickMessage
     /\ InBounds(games[req.game_id].size, req.x, req.y))
    => /\ <<req.x, req.y>> \notin Board(games, req.game_id).mines
       /\ resp.game_state # "Lost"
       /\ Board(games, req.game_id).state # "Lost"

\* An in-bounds first reveal generated a board that has mines.
C4_Witness ==
    /\ req.op = "click_tile"
    /\ resp.kind = "ActionResponse"
    /\ resp.message = FirstClickMessage
    /\ InBounds(games[req.game_id].size, req.x, req.y)
    /\ Board(games, req.game_id).mines # {}

Pending(g, game_id) == game_id \in DOMAIN g /\ ~IsSome(g[game_id].game)

\* C5: a session is pending from creation until its first reveal; that
\* reveal makes it active with the clicked tile exposed in the returned
\* snapshot; fetch-state and flag requests never activate a pending session;
\* a later reveal never returns an active session to pending nor regenerates
\* its board.
C5_Lifecycle ==
    [][/\ (Served /\ req'.op = "new_game" /\ resp'.kind = "GameResponse")
            => Pending(games', req'.game_id)
       /\ \A id \in DOMAIN games :
            /\ (Pending(games, id) /\ Served /\ req'.op = "click_tile"
                  /\ req'.game_id = id)
               => /\ Active(games', id)
                  /\ <<req'.x, req'.y>> \in Board(games', id).exposed
                  /\ resp'.kind = "ActionResponse"
                  /\ resp'.board[req'.x][req'.y].exposed
            /\ (Pending(games, id) /\ Served
                  /\ req'.op \in {"get_game_state", "toggle_flag"})
               => Pending(games', id)
            /\ (Active(games, id) /\ Served /\ req'.op = "click_tile")
               => /\ Active(games', id)
                  /\ Board(games', id).mines = Board(games, id).mines]_vars

\* C6: a create request with mineCount >= size*size fails and stores no
\* session; every stored session has 0 <= mineCount < size*size.
C6_CreateValidates ==
    /\ (req.op = "new_game" /\ req.mine_count >= req.size * req.size)
          => resp.kind = "Err"
    /\ \A id \in DOMAIN games :
          games[id].mine_count < games[id].size * games[id].size

\* C7: the id a create request returns is not one already in the registry,
\* and creating a session leaves every existing session as it was.
C7_UniqueIds ==
    [][(Served /\ req'.op = "new_game" /\ resp'.kind = "GameResponse")
          => /\ resp'.game_id \notin DOMAIN games
             /\ \A id \in DOMAIN games :
                   id \in DOMAIN games' /\ games'[id] = games[id]]_vars

\* C8: ToggleFlag on a pending session fails with success=false
\* (GameNotStarted) at every coordinate, leaves the session pending with no
\* board, and returns a size x size snapshot of unexposed, unflagged tiles.
C8_FlagPending ==
    [][\A id \in DOMAIN games :
         (Pending(games, id) /\ Served /\ req'.op = "toggle_flag"
             /\ req'.game_id = id)
         => /\ resp'.kind = "ActionResponse"
            /\ resp'.success = FALSE
            /\ resp'.message = "Make your first click before flagging!"
            /\ games'[id] = games[id]
            /\ DOMAIN resp'.board = 0..(games[id].size - 1)
            /\ \A x \in DOMAIN resp'.board :
                  /\ DOMAIN resp'.board[x] = 0..(games[id].size - 1)
                  /\ \A y \in DOMAIN resp'.board[x] :
                        resp'.board[x][y] = TileResponse(FALSE, FALSE, None)]_vars

\* C9: fetch-state, reveal and flag addressed to an id that is not in the
\* registry fail with NotFound and leave the registry unchanged.
C9_NotFound ==
    [][(Served /\ req'.op \in {"get_game_state", "click_tile", "toggle_flag"}
          /\ req'.game_id \notin DOMAIN games)
         => /\ resp' = ErrStatus("NOT_FOUND")
            /\ games' = games]_vars

\* C10: a reveal with x >= size or y >= size fails with OutOfBounds
\* (success=false) on a pending and on an active session and exposes no tile;
\* a pending session stays pending.
C10_OutOfBounds ==
    [][\A id \in DOMAIN games :
         (Served /\ req'.op = "click_tile" /\ req'.game_id = id
             /\ ~InBounds(games[id].size, req'.x, req'.y))
         => /\ resp'.kind = "ActionResponse"
            /\ resp'.success = FALSE
            /\ resp'.message = "OutOfBounds"
            /\ games'[id] = games[id]]_vars

\* The tile a click or flag request names.
Clicked == <<req'.x, req'.y>>

\* A reveal (click_tile) of session id is served in this step.
RevealOn(id) == Served /\ req'.op = "click_tile" /\ req'.game_id = id

\* A flag request (toggle_flag) on session id is served in this step.
FlagOn(id) == Served /\ req'.op = "toggle_flag" /\ req'.game_id = id

InProgressBoard(g, id) == Active(g, id) /\ Board(g, id).state = "InProgress"

C12_WinCondition ==
    /\ \A id \in DOMAIN games :
          Active(games, id) =>
             LET b == Board(games, id) IN
             b.state # "Lost" =>
                ((b.state = "Won") = (\A c \in Cells(b.size) : c \in b.mines \/ c \in b.exposed))
    /\ (resp.kind = "ActionResponse" /\ Active(games, req.game_id))
          => resp.game_state = Board(games, req.game_id).state

\* The activating first reveal of a board without mines reports Won.
C12_Witness ==
    /\ req.op = "click_tile"
    /\ resp.kind = "ActionResponse"
    /\ resp.message = FirstClickMessage
    /\ resp.game_state = "Won"
    /\ Active(games, req.game_id)
    /\ Board(games, req.game_id).size = 2
    /\ Board(games, req.game_id).mines = {}

\* Tile t of board b is safe, shows count 0, and is neither flagged nor
\* exposed.
ZeroOpen(b, t) ==
    /\ t \notin b.mines
    /\ AdjacentCount(b.size, b.mines, t) = 0
    /\ t \notin b.flagged
    /\ t \notin b.exposed

\* The tiles reachable from the set S through 8-connected ZeroOpen tiles.
RECURSIVE ZeroRegion(_, _)
ZeroRegion(b, S) ==
    LET T == S \cup {d \in Cells(b.size) :
                       ZeroOpen(b, d) /\ \E z \in S : d \in Neighbors(b.size, z)}
    IN IF T = S THEN S ELSE ZeroRegion(b, T)

\* What a reveal of the safe, unexposed, unflagged tile c of b has to expose:
\* c alone when its count is above 0, else its zero region and the unflagged
\* tiles bordering the region.
ExpectedReveal(b, c) ==
    IF AdjacentCount(b.size, b.mines, c) > 0 THEN {c}
    ELSE LET Z == ZeroRegion(b, {c})
         IN Z \cup {d \in Cells(b.size) :
                      d \notin b.flagged /\ \E z \in Z : d \in Neighbors(b.size, z)}

Flipped(b, c) == IF c \in b.flagged THEN b.flagged \ {c} ELSE b.flagged \cup {c}

InvalidConfig(g, id) == g[id].mine_count > g[id].size * g[id].size - 1

\* C17: a first reveal on a pending session whose configuration is invalid
\* (mineCount > size * size - 1) gets a response that reports failure, leaves
\* the session pending, and is not fatal: the registry stays usable for the
\* requests that follow.
C17_InvalidConfigRecoverable ==
    [][\A id \in DOMAIN games :
         (/\ Pending(games, id)
          /\ InvalidConfig(games, id)
          /\ RevealOn(id))
         => /\ resp'.kind = "ActionResponse"
            /\ resp'.success = FALSE
            /\ Pending(games', id)
            /\ poisoned' = FALSE]_vars

\* C18: a reveal or flag request addressed to one session id leaves every
\* other session of the registry unchanged (status, size, mine count, tiles,
\* game state) and adds or removes none; a fetch-state request changes no
\* session at all, the one it addresses included.
C18_SessionIsolation ==
    [][/\ \A id \in Ids :
            (RevealOn(id) \/ FlagOn(id))
            => /\ DOMAIN games' = DOMAIN games
               /\ \A j \in DOMAIN games \ {id} : games'[j] = games[j]
       /\ (Served /\ req'.op = "get_game_state") => games' = games]_vars

\* A first reveal just activated one session while another, already active,
\* session is in the registry.
C18_Witness ==
    /\ req.op = "click_tile"
    /\ resp.kind = "ActionResponse"
    /\ resp.message = FirstClickMessage
    /\ \E j \in DOMAIN games \ {req.game_id} :
          /\ Active(games, j)
          /\ Board(games, j).exposed # {}
    /\ Active(games, req.game_id)
    /\ Board(games, req.game_id).exposed # {}

\* C19: in every reachable registry state a session's first_click_made is
\* true exactly when its game is Some; no request is answered with
\* INTERNAL_SERVER_ERROR; and no request other than the new_game that
\* creates the session under its id changes the session's size or
\* mine_count, or removes the session.
C19_FirstClickMadeIffBoard ==
    /\ [](\A id \in DOMAIN games :
             games[id].first_click_made = IsSome(games[id].game))
    /\ [](resp # ErrStatus("INTERNAL_SERVER_ERROR"))
    /\ [][\A id \in DOMAIN games :
            ~(Served /\ req'.op = "new_game" /\ req'.game_id = id)
            => /\ id \in DOMAIN games'
               /\ games'[id].size = games[id].size
               /\ games'[id].mine_count = games[id].mine_count]_vars

\* A flag request was served on a session that a first reveal had activated,
\* while another session is still pending.
C19_Witness ==
    /\ req.op = "toggle_flag"
    /\ resp.kind = "ActionResponse"
    /\ resp.success = TRUE
    /\ Active(games, req.game_id)
    /\ games[req.game_id].first_click_made
    /\ Board(games, req.game_id).flagged # {}
    /\ \E j \in DOMAIN games : Pending(games, j) /\ ~games[j].first_click_made
====
